---- MODULE Spec2Model ----
EXTENDS Integers, Sequences, FiniteSets, TLC

\* Model of electrum/jsonrpc.py: the authenticating JSON-RPC servers.
\* A Python str is a sequence of code points, a Python bytes a sequence of
\* integers 0..255.  "Basic" is <<66, 97, 115, 105, 99>>.

VARIABLES
    policy,         \* the server class that was constructed
    rpc_user,       \* PasswordProtectedJSONRPCServer.rpc_user
    rpc_password,   \* PasswordProtectedJSONRPCServer.rpc_password
    users,          \* AccountsJSONRPCServer.users, a dict id -> pubkey
    req,            \* per handler thread: the request it is serving
    issued,         \* the add_user calls that returned, in order: [id, pubkey]
    seen            \* the outcomes parse_request has had so far

vars == <<policy, rpc_user, rpc_password, users, req, issued, seen>>

----------------------------------------------------------------------------
\* Bounds of the model.

\* handler threads of the threaded server
MaxThreads == 2
\* add_user is not dispatched once the table holds this many users
MaxUsers == 2

----------------------------------------------------------------------------
\* str and bytes helpers

\* s[from..] without the first n elements
Drop(s, n) == SubSeq(s, n + 1, Len(s))

\* the index of the first occurrence of c in s, 0 when there is none
FirstIndex(s, c) ==
    IF \E i \in 1..Len(s) : s[i] = c
    THEN CHOOSE i \in 1..Len(s) : s[i] = c /\ \A j \in 1..(i - 1) : s[j] # c
    ELSE 0

\* partition as str.rpartition(sep): split at the last sep, and
\* <<'', '', s>> when sep does not occur
rpartition(s, sep) ==
    IF \E i \in 1..Len(s) : s[i] = sep
    THEN LET i == CHOOSE k \in 1..Len(s) :
                      s[k] = sep /\ \A j \in (k + 1)..Len(s) : s[j] # sep
         IN <<SubSeq(s, 1, i - 1), <<sep>>, Drop(s, i)>>
    ELSE <<<<>>, <<>>, s>>

\* str.partition(sep) for a one-character sep: <<before, sep, after>>, and
\* <<s, '', ''>> when sep does not occur
partition(s, sep) ==
    LET i == FirstIndex(s, sep) IN
    IF i = 0 THEN <<s, <<>>, <<>>>>
    ELSE <<SubSeq(s, 1, i - 1), <<sep>>, Drop(s, i)>>

\* str.strip(): leading and trailing whitespace removed
IsSpace(c) == c \in {9, 10, 11, 12, 13, 32}

RECURSIVE lstrip(_)
lstrip(s) == IF s # <<>> /\ IsSpace(s[1]) THEN lstrip(Tail(s)) ELSE s

RECURSIVE rstrip(_)
rstrip(s) ==
    IF s # <<>> /\ IsSpace(s[Len(s)]) THEN rstrip(SubSeq(s, 1, Len(s) - 1)) ELSE s

strip(s) == rstrip(lstrip(s))

\* str.encode('utf8') of one code point (no surrogates occur in the model)
Utf8EncodeChar(cp) ==
    IF cp < 128 THEN <<cp>>
    ELSE IF cp < 2048 THEN <<192 + (cp \div 64), 128 + (cp % 64)>>
    ELSE IF cp < 65536
         THEN <<224 + (cp \div 4096), 128 + ((cp \div 64) % 64), 128 + (cp % 64)>>
    ELSE <<240 + (cp \div 262144), 128 + ((cp \div 4096) % 64),
           128 + ((cp \div 64) % 64), 128 + (cp % 64)>>

\* util.to_bytes(s, 'utf8') of a str
RECURSIVE to_bytes(_)
to_bytes(s) == IF s = <<>> THEN <<>> ELSE Utf8EncodeChar(s[1]) \o to_bytes(Tail(s))

IsCont(b) == b >= 128 /\ b <= 191

\* the length of the well-formed UTF-8 sequence that starts b, 0 when there
\* is none (a continuation byte, an overlong or out-of-range lead, a
\* surrogate, a truncated sequence)
Utf8SeqLen(b) ==
    IF b[1] < 128 THEN 1
    ELSE IF b[1] >= 194 /\ b[1] <= 223
         THEN IF Len(b) >= 2 /\ IsCont(b[2]) THEN 2 ELSE 0
    ELSE IF b[1] >= 224 /\ b[1] <= 239
         THEN IF /\ Len(b) >= 3
                 /\ IsCont(b[2])
                 /\ IsCont(b[3])
                 /\ (b[1] = 224 => b[2] >= 160)
                 /\ (b[1] = 237 => b[2] <= 159)
              THEN 3 ELSE 0
    ELSE IF b[1] >= 240 /\ b[1] <= 244
         THEN IF /\ Len(b) >= 4
                 /\ IsCont(b[2])
                 /\ IsCont(b[3])
                 /\ IsCont(b[4])
                 /\ (b[1] = 240 => b[2] >= 144)
                 /\ (b[1] = 244 => b[2] <= 143)
              THEN 4 ELSE 0
    ELSE 0

Utf8CodePoint(b, n) ==
    IF n = 1 THEN b[1]
    ELSE IF n = 2 THEN (b[1] - 192) * 64 + (b[2] - 128)
    ELSE IF n = 3 THEN (b[1] - 224) * 4096 + (b[2] - 128) * 64 + (b[3] - 128)
    ELSE (b[1] - 240) * 262144 + (b[2] - 128) * 4096 + (b[3] - 128) * 64
         + (b[4] - 128)

\* util.to_string(b, 'utf8') of a bytes: [ok, str]; ok is FALSE where
\* bytes.decode raises UnicodeDecodeError
RECURSIVE to_string(_)
to_string(b) ==
    IF b = <<>> THEN [ok |-> TRUE, str |-> <<>>]
    ELSE LET n == Utf8SeqLen(b) IN
         IF n = 0 THEN [ok |-> FALSE, str |-> <<>>]
         ELSE LET rest == to_string(Drop(b, n)) IN
              IF rest.ok
              THEN [ok |-> TRUE, str |-> <<Utf8CodePoint(b, n)>> \o rest.str]
              ELSE rest

\* the value of a character of the base64 alphabet, -1 for any other byte
B64Val(c) ==
    IF c >= 65 /\ c <= 90 THEN c - 65
    ELSE IF c >= 97 /\ c <= 122 THEN c - 97 + 26
    ELSE IF c >= 48 /\ c <= 57 THEN c - 48 + 52
    ELSE IF c = 43 THEN 62
    ELSE IF c = 47 THEN 63
    ELSE -1

\* binascii.a2b_base64 in its non-strict mode, which is what
\* b64decode(s) with validate=False runs: bytes outside the alphabet are
\* skipped, a complete pad sequence ends the input, and a quad left open at
\* the end raises binascii.Error
RECURSIVE a2b_base64(_, _, _, _, _, _)
a2b_base64(data, i, quad_pos, leftchar, pads, out) ==
    IF i > Len(data)
    THEN IF quad_pos # 0
         THEN [ok |-> FALSE, bytes |-> <<>>]
         ELSE [ok |-> TRUE, bytes |-> out]
    ELSE LET c == data[i]
             v == B64Val(c)
         IN
         IF c = 61
         THEN IF quad_pos >= 2 /\ quad_pos + pads + 1 >= 4
              THEN [ok |-> TRUE, bytes |-> out]
              ELSE a2b_base64(data, i + 1, quad_pos, leftchar,
                              IF quad_pos >= 2 THEN pads + 1 ELSE pads, out)
         ELSE IF v < 0
         THEN a2b_base64(data, i + 1, quad_pos, leftchar, pads, out)
         ELSE IF quad_pos = 0
         THEN a2b_base64(data, i + 1, 1, v, 0, out)
         ELSE IF quad_pos = 1
         THEN a2b_base64(data, i + 1, 2, v % 16, 0,
                         Append(out, (leftchar * 4 + (v \div 16)) % 256))
         ELSE IF quad_pos = 2
         THEN a2b_base64(data, i + 1, 3, v % 4, 0,
                         Append(out, (leftchar * 16 + (v \div 4)) % 256))
         ELSE a2b_base64(data, i + 1, 0, 0, 0,
                         Append(out, (leftchar * 64 + v) % 256))

b64decode(s) == a2b_base64(s, 1, 0, 0, 0, <<>>)

\* util.constant_time_compare(val1, val2): both are encoded as UTF-8 and the
\* byte strings compared for equality
constant_time_compare(val1, val2) == to_bytes(val1) = to_bytes(val2)

----------------------------------------------------------------------------
\* The requests the transport hands to the handler.

\* base64.b64encode of a bytes, as a client builds the Basic payload
B64Char(v) ==
    IF v < 26 THEN 65 + v
    ELSE IF v < 52 THEN 97 + (v - 26)
    ELSE IF v < 62 THEN 48 + (v - 52)
    ELSE IF v = 62 THEN 43
    ELSE 47

RECURSIVE b64encode(_)
b64encode(b) ==
    IF b = <<>> THEN <<>>
    ELSE IF Len(b) = 1
    THEN <<B64Char(b[1] \div 4), B64Char((b[1] % 4) * 16), 61, 61>>
    ELSE IF Len(b) = 2
    THEN <<B64Char(b[1] \div 4), B64Char((b[1] % 4) * 16 + (b[2] \div 16)),
           B64Char((b[2] % 16) * 4), 61>>
    ELSE <<B64Char(b[1] \div 4), B64Char((b[1] % 4) * 16 + (b[2] \div 16)),
           B64Char((b[2] % 16) * 4 + (b[3] \div 64)), B64Char(b[3] % 64)>>
         \o b64encode(Drop(b, 3))

\* 'Basic'
BasicScheme == <<66, 97, 115, 105, 99>>

\* the header value 'Basic ' + base64(credentials) of the header contract
BasicHeader(credentials) == BasicScheme \o <<32>> \o b64encode(to_bytes(credentials))

\* the username:password strings clients send
Credentials == {
    <<97, 58, 115>>,            \* 'a:s'
    <<98, 58, 115>>,            \* 'b:s'
    <<97, 58, 119>>,            \* 'a:w'
    <<97, 58, 115, 58, 120>>,   \* 'a:s:x'
    <<97>>,                     \* 'a'
    <<97, 58>>,                 \* 'a:'
    <<58, 115>>,                \* ':s'
    <<233, 58, 115>>            \* 'e-acute:s'
}

\* Authorization values that are not 'Basic ' + base64(credentials)
RawAuthorization == {
    <<68, 105, 103, 101, 115, 116, 32, 120, 121, 122>>,       \* 'Digest xyz'
    <<68, 105, 103, 101, 115, 116, 32, 89>>,                  \* 'Digest Y'
    <<98, 97, 115, 105, 99, 32, 89, 84, 112, 122>>,           \* 'basic YTpz'
    <<66, 97, 115, 105, 99, 89, 84, 112, 122>>,               \* 'BasicYTpz'
    <<66, 97, 115, 105, 99>>,                                 \* 'Basic'
    <<66, 97, 115, 105, 99, 32, 89, 81>>,                     \* 'Basic YQ'
    <<66, 97, 115, 105, 99, 32, 89>>,                         \* 'Basic Y'
    <<66, 97, 115, 105, 99, 32, 47, 119, 61, 61>>,            \* 'Basic /w=='
    <<66, 97, 115, 105, 99, 32, 32, 89, 84, 112, 122>>,       \* 'Basic  YTpz'
    <<66, 97, 115, 105, 99, 32, 89, 84, 112, 54, 61, 90>>,    \* 'Basic YTp6=Z'
    <<66, 97, 115, 105, 99, 32, 233>>,                        \* 'Basic e-acute'
    <<>>                                                      \* ''
}

\* a header mapping that holds only Authorization, and the empty mapping
WithAuthorization(value) == [k \in {"Authorization"} |-> value]
NoHeaders == [k \in {} |-> <<>>]

HeaderSets ==
    {NoHeaders}
    \cup {WithAuthorization(BasicHeader(c)) : c \in Credentials}
    \cup {WithAuthorization(v) : v \in RawAuthorization}

\* 'OPTIONS'
OptionsCommand == <<79, 80, 84, 73, 79, 78, 83>>
\* 'POST'
PostCommand == <<80, 79, 83, 84>>

\* 'POST', 'OPTIONS', 'options'
Commands == {PostCommand, OptionsCommand, <<111, 112, 116, 105, 111, 110, 115>>}

\* what one handler thread holds for a request: command and headers as the
\* base parse_request set them, base_ok its return value
Request(command, headers, base_ok) ==
    [pc |-> "parse_request", command |-> command, headers |-> headers,
     base_ok |-> base_ok, trace |-> <<>>, errors |-> <<>>, exc |-> "none",
     result |-> "none", dispatched |-> FALSE, pubkey |-> "none", user_id |-> -1]

\* the requests of the single-threaded server
Requests ==
    {Request(c, h, b) : c \in Commands, h \in HeaderSets, b \in BOOLEAN}

\* the requests of the threaded server: no header, valid-looking and other
\* Basic credentials, a preflight, a request the base parse refuses
ThreadedRequests ==
    {Request(PostCommand, h, TRUE) :
        h \in {NoHeaders,
               WithAuthorization(BasicHeader(<<97, 58, 115>>)),
               WithAuthorization(BasicHeader(<<97, 58, 119>>))}}
    \cup {Request(OptionsCommand, NoHeaders, TRUE),
          Request(PostCommand, NoHeaders, FALSE)}

Idle ==
    [pc |-> "idle", command |-> <<>>, headers |-> NoHeaders, base_ok |-> FALSE,
     trace |-> <<>>, errors |-> <<>>, exc |-> "none", result |-> "none",
     dispatched |-> FALSE, pubkey |-> "none", user_id |-> -1]

\* the identities add_user is called with
Pubkeys == {"pubkey1", "pubkey2"}

\* the configurations a server is constructed with: (rpc_user, rpc_password)
\* 'a' or 'b', and '', 's' or 's:x'
RpcUsers == {<<97>>, <<98>>}
RpcPasswords == {<<>>, <<115>>, <<115, 58, 120>>}

----------------------------------------------------------------------------
\* authenticate.  The result is [kind, exc, events]: kind "return" (no
\* exception), "raise" (exc is the exception's class) or "sleep" (the
\* comparison failed and control is at time.sleep); events are the calls
\* made, in order.

\* BaseAuthenticate as a method that does nothing
BaseAuthenticateReturns(headers) ==
    [kind |-> "return", exc |-> "none", events |-> <<>>]

\* AuthenticatedJSONRPCServer.authenticate
BaseAuthenticate(headers) ==
    [kind |-> "raise", exc |-> "Exception", events |-> <<>>]

\* AccountsJSONRPCServer.authenticate
AccountsAuthenticate(headers) ==
    [kind |-> "return", exc |-> "none", events |-> <<>>]

\* CompareCredentials with the password comparison left out
CompareCredentialsUserOnly(username, password, user, pass) ==
    [ok |-> constant_time_compare(username, user),
     events |-> <<"compare_username">>]

\* the condition of the if statement of PasswordProtectedJSONRPCServer
\* .authenticate: Python's `and` evaluates its right operand only when the
\* left one is true
CompareCredentials(username, password, user, pass) ==
    LET user_ok == constant_time_compare(username, user) IN
    IF user_ok
    THEN [ok |-> constant_time_compare(password, pass),
          events |-> <<"compare_username", "compare_password">>]
    ELSE [ok |-> FALSE, events |-> <<"compare_username">>]

\* PasswordDisabled with the check of the empty password left out
PasswordDisabledNever(pass) == FALSE

\* if self.rpc_password == '': RPC authentication is disabled
PasswordDisabled(pass) == pass = <<>>

\* HeadersGet as headers.get(name, ''): a missing header reads as ''
HeadersGetDefaultEmpty(headers, name) ==
    IF name \in DOMAIN headers
    THEN [found |-> TRUE, value |-> headers[name]]
    ELSE [found |-> TRUE, value |-> <<>>]

\* headers.get(name, None): found is FALSE where get returns None
HeadersGet(headers, name) ==
    IF name \in DOMAIN headers
    THEN [found |-> TRUE, value |-> headers[name]]
    ELSE [found |-> FALSE, value |-> <<>>]

\* SchemeOk as basic.startswith('Basic')
SchemeOkStartsWith(basic) ==
    Len(basic) >= Len(BasicScheme) /\ SubSeq(basic, 1, Len(BasicScheme)) = BasicScheme

\* basic != 'Basic', negated
SchemeOk(basic) == basic = BasicScheme

\* PasswordProtectedJSONRPCServer.authenticate up to time.sleep
PasswordAuthenticate(user, pass, headers) ==
    IF PasswordDisabled(pass)
    THEN [kind |-> "return", exc |-> "none", events |-> <<>>]
    ELSE
    LET auth_string == HeadersGet(headers, "Authorization")
        parts == partition(auth_string.value, 32)
        basic == parts[1]
        encoded == to_bytes(parts[3])
        decoded == b64decode(encoded)
        credentials == to_string(decoded.bytes)
        creds == partition(credentials.str, 58)
        cmp == CompareCredentials(creds[1], creds[3], user, pass)
    IN
    IF ~auth_string.found
    THEN [kind |-> "raise", exc |-> "RPCAuthCredentialsMissing",
          events |-> <<"headers.get">>]
    ELSE IF ~SchemeOk(basic)
    THEN [kind |-> "raise", exc |-> "RPCAuthUnsupportedType",
          events |-> <<"headers.get">>]
    ELSE IF ~decoded.ok
    THEN [kind |-> "raise", exc |-> "binascii.Error",
          events |-> <<"headers.get", "b64decode">>]
    ELSE IF ~credentials.ok
    THEN [kind |-> "raise", exc |-> "UnicodeDecodeError",
          events |-> <<"headers.get", "b64decode", "to_string">>]
    ELSE IF cmp.ok
    THEN [kind |-> "return", exc |-> "none",
          events |-> <<"headers.get", "b64decode", "to_string">> \o cmp.events]
    ELSE [kind |-> "sleep", exc |-> "none",
          events |-> <<"headers.get", "b64decode", "to_string">> \o cmp.events]

\* Authenticate with a lockout: once a request was answered 401 the
\* password server rejects every request as having bad credentials
AuthenticateWithLockout(headers) ==
    IF policy = "PasswordProtectedJSONRPCServer"
    THEN IF "401" \in seen /\ ~PasswordDisabled(rpc_password)
         THEN [kind |-> "sleep", exc |-> "none",
               events |-> <<"headers.get", "compare_username">>]
         ELSE PasswordAuthenticate(rpc_user, rpc_password, headers)
    ELSE IF policy = "AccountsJSONRPCServer"
    THEN AccountsAuthenticate(headers)
    ELSE BaseAuthenticate(headers)

\* self.authenticate(headers): the method of the constructed class
Authenticate(headers) ==
    IF policy = "PasswordProtectedJSONRPCServer"
    THEN PasswordAuthenticate(rpc_user, rpc_password, headers)
    ELSE IF policy = "AccountsJSONRPCServer"
    THEN AccountsAuthenticate(headers)
    ELSE BaseAuthenticate(headers)

\* the exceptions of the first except clause of parse_request
AuthErrors ==
    {"RPCAuthCredentialsInvalid", "RPCAuthCredentialsMissing",
     "RPCAuthUnsupportedType"}

\* str(e): the __str__ of the three authentication errors
Str(exc) ==
    IF exc = "RPCAuthCredentialsInvalid"
    THEN "Authentication failed (bad credentials)"
    ELSE IF exc = "RPCAuthCredentialsMissing"
    THEN "Authentication failed (missing credentials)"
    ELSE IF exc = "RPCAuthUnsupportedType"
    THEN "Authentication failed (only basic auth is supported)"
    ELSE exc

\* repr(e): the three authentication errors are built without arguments;
\* the arguments of the other exceptions are left out
Repr(exc) ==
    IF exc \in AuthErrors THEN exc \o "()"
    ELSE IF exc = "Exception" THEN "Exception('undefined')"
    ELSE exc \o "(...)"

\* HandleException with control falling through to return True
HandleExceptionReturnsTrue(r, exc) ==
    IF exc \in AuthErrors
    THEN [r EXCEPT !.pc = "parsed", !.exc = exc, !.result = "True",
                   !.trace = @ \o <<"raise", "send_error">>,
                   !.errors = Append(@, [code |-> 401, message |-> Repr(exc)])]
    ELSE [r EXCEPT !.pc = "parsed", !.exc = exc, !.result = "True",
                   !.trace = @ \o <<"raise", "logger.exception", "send_error">>,
                   !.errors = Append(@, [code |-> 500, message |-> Repr(exc)])]

\* HandleException with every exception caught by the first except clause
HandleExceptionAll401(r, exc) ==
    [r EXCEPT !.pc = "parsed", !.exc = exc, !.result = "False",
              !.trace = @ \o <<"raise", "send_error">>,
              !.errors = Append(@, [code |-> 401, message |-> Repr(exc)])]

\* HandleException with an authentication error answered by both except
\* clauses
HandleExceptionSendsBoth(r, exc) ==
    IF exc \in AuthErrors
    THEN [r EXCEPT !.pc = "parsed", !.exc = exc, !.result = "False",
                   !.trace = @ \o <<"raise", "send_error", "logger.exception",
                                    "send_error">>,
                   !.errors = @ \o <<[code |-> 401, message |-> Repr(exc)],
                                     [code |-> 500, message |-> Repr(exc)]>>]
    ELSE [r EXCEPT !.pc = "parsed", !.exc = exc, !.result = "False",
                   !.trace = @ \o <<"raise", "logger.exception", "send_error">>,
                   !.errors = Append(@, [code |-> 500, message |-> Repr(exc)])]

\* HandleException with the delay taken in the handler, for every exception
HandleExceptionSleeps(r, exc) ==
    IF exc \in AuthErrors
    THEN [r EXCEPT !.pc = "parsed", !.exc = exc, !.result = "False",
                   !.trace = @ \o <<"raise", "time.sleep", "send_error">>,
                   !.errors = Append(@, [code |-> 401, message |-> Repr(exc)])]
    ELSE [r EXCEPT !.pc = "parsed", !.exc = exc, !.result = "False",
                   !.trace = @ \o <<"raise", "time.sleep", "logger.exception",
                                    "send_error">>,
                   !.errors = Append(@, [code |-> 500, message |-> Repr(exc)])]

\* the except clauses of parse_request, for an exception of class exc raised
\* by authenticate, and the return False that follows them
HandleException(r, exc) ==
    IF exc \in AuthErrors
    THEN [r EXCEPT !.pc = "parsed", !.exc = exc, !.result = "False",
                   !.trace = @ \o <<"raise", "send_error">>,
                   !.errors = Append(@, [code |-> 401, message |-> Repr(exc)])]
    ELSE [r EXCEPT !.pc = "parsed", !.exc = exc, !.result = "False",
                   !.trace = @ \o <<"raise", "logger.exception", "send_error">>,
                   !.errors = Append(@, [code |-> 500, message |-> Repr(exc)])]

\* IsOptions with the OPTIONS bypass left out
IsOptionsNever(command) == FALSE

\* myself.command.strip() == 'OPTIONS'
IsOptions(command) == strip(command) = OptionsCommand

\* ParseRequestStep with the result of the base parse_request ignored
ParseRequestStepIgnoresBase(r) ==
    IF IsOptions(r.command)
    THEN [r EXCEPT !.pc = "parsed", !.result = "True",
                   !.trace = <<"base.parse_request">>]
    ELSE LET a == Authenticate(r.headers)
             called == [r EXCEPT !.trace = <<"base.parse_request", "authenticate">>
                                            \o a.events]
         IN
         IF a.kind = "return"
         THEN [called EXCEPT !.pc = "parsed", !.result = "True"]
         ELSE IF a.kind = "sleep"
         THEN [called EXCEPT !.pc = "sleep"]
         ELSE HandleException(called, a.exc)

\* parse_request from its start to its return, or to time.sleep
ParseRequestStep(r) ==
    IF ~r.base_ok
    THEN [r EXCEPT !.pc = "parsed", !.result = "False",
                   !.trace = <<"base.parse_request">>]
    ELSE IF IsOptions(r.command)
    THEN [r EXCEPT !.pc = "parsed", !.result = "True",
                   !.trace = <<"base.parse_request">>]
    ELSE LET a == Authenticate(r.headers)
             called == [r EXCEPT !.trace = <<"base.parse_request", "authenticate">>
                                            \o a.events]
         IN
         IF a.kind = "return"
         THEN [called EXCEPT !.pc = "parsed", !.result = "True"]
         ELSE IF a.kind = "sleep"
         THEN [called EXCEPT !.pc = "sleep"]
         ELSE HandleException(called, a.exc)

----------------------------------------------------------------------------
\* The server.

Threads == DOMAIN req

\* the requests a thread can be handed: all of them on the single-threaded
\* server, the representative ones on the threaded server
RequestChoices == IF Cardinality(Threads) = 1 THEN Requests ELSE ThreadedRequests

Configurations ==
    {<<"AuthenticatedJSONRPCServer", <<>>, <<>>>>,
     <<"AccountsJSONRPCServer", <<>>, <<>>>>}
    \cup {<<"PasswordProtectedJSONRPCServer", u, p>> :
             u \in RpcUsers, p \in RpcPasswords}

\* the state after __init__, with n handler threads
InitServer(n) ==
    /\ \E c \in Configurations :
          /\ policy = c[1]
          /\ rpc_user = c[2]
          /\ rpc_password = c[3]
    /\ users = <<>>
    /\ req = [t \in 1..n |-> Idle]
    /\ issued = <<>>
    /\ seen = {}

\* SimpleJSONRPCServer is a TCPServer: one request at a time
Init == InitServer(1)

\* the same server class with socketserver.ThreadingMixIn
InitThreaded == InitServer(MaxThreads)

\* a connection is accepted and the base handler has read the request
Accept(t) ==
    /\ req[t].pc = "idle"
    /\ \E r \in RequestChoices : req' = [req EXCEPT ![t] = r]
    /\ UNCHANGED <<policy, rpc_user, rpc_password, users, issued, seen>>

\* the outcomes seen once parse_request has returned for r: "allowed" for
\* True after authenticate or the OPTIONS bypass, "401" or "500" for the
\* error it sent
Record(r) ==
    IF r.result = "True" THEN seen \cup {"allowed"}
    ELSE IF r.errors = <<>> THEN seen
    ELSE IF r.errors[Len(r.errors)].code = 401 THEN seen \cup {"401"}
    ELSE seen \cup {"500"}

\* CanParse with a lock around self.authenticate that a request keeps
\* while it sleeps
CanParseLocked(t) ==
    /\ req[t].pc = "parse_request"
    /\ \A u \in DOMAIN req \ {t} : req[u].pc \notin {"sleep", "raise"}

\* thread t can run parse_request: it holds a request; the handler and
\* authenticate take no lock, so nothing else is waited for
CanParse(t) == req[t].pc = "parse_request"

\* VerifyingRequestHandler.parse_request
ParseRequest(t) ==
    /\ CanParse(t)
    /\ req' = [req EXCEPT ![t] = ParseRequestStep(req[t])]
    /\ seen' = Record(ParseRequestStep(req[t]))
    /\ UNCHANGED <<policy, rpc_user, rpc_password, users, issued>>

\* Sleep with the call of time.sleep left out
SleepSkipped(t) ==
    /\ req[t].pc = "sleep"
    /\ req' = [req EXCEPT ![t].pc = "raise"]
    /\ UNCHANGED <<policy, rpc_user, rpc_password, users, issued, seen>>

\* time.sleep(0.050) in authenticate
Sleep(t) ==
    /\ req[t].pc = "sleep"
    /\ req' = [req EXCEPT ![t].pc = "raise", ![t].trace = Append(@, "time.sleep")]
    /\ UNCHANGED <<policy, rpc_user, rpc_password, users, issued, seen>>

\* raise RPCAuthCredentialsInvalid() after the sleep, and the handler's
\* except clause
RaiseInvalid(t) ==
    /\ req[t].pc = "raise"
    /\ req' = [req EXCEPT ![t] = HandleException(@, "RPCAuthCredentialsInvalid")]
    /\ seen' = Record(HandleException(req[t], "RPCAuthCredentialsInvalid"))
    /\ UNCHANGED <<policy, rpc_user, rpc_password, users, issued>>

\* the calls add_user has started and not finished, and those that returned
AddUserCalls ==
    Cardinality({t \in Threads : req[t].pc \in {"add_user_len", "add_user_insert"}})
    + Len(issued)

\* parse_request returned True: the request goes on to its method handler;
\* a POST is dispatched to the RPC layer, where the Accounts server has
\* add_user registered
Dispatch(t) ==
    /\ req[t].pc = "parsed"
    /\ req[t].result = "True"
    /\ \/ req' = [req EXCEPT ![t].pc = "done", ![t].dispatched = TRUE]
       \/ /\ policy = "AccountsJSONRPCServer"
          /\ req[t].command = PostCommand
          /\ AddUserCalls < MaxUsers
          /\ \E pubkey \in Pubkeys :
                req' = [req EXCEPT ![t].pc = "add_user_len",
                                   ![t].dispatched = TRUE,
                                   ![t].pubkey = pubkey]
    /\ UNCHANGED <<policy, rpc_user, rpc_password, users, issued, seen>>

\* AddUserLen with identifiers counted from 1
AddUserLenFromOne(t) ==
    /\ req[t].pc = "add_user_len"
    /\ req' = [req EXCEPT ![t].pc = "add_user_insert",
                          ![t].user_id = Cardinality(DOMAIN users) + 1]
    /\ UNCHANGED <<policy, rpc_user, rpc_password, users, issued, seen>>

\* add_user: user_id = len(self.users)
AddUserLen(t) ==
    /\ req[t].pc = "add_user_len"
    /\ req' = [req EXCEPT ![t].pc = "add_user_insert",
                          ![t].user_id = Cardinality(DOMAIN users)]
    /\ UNCHANGED <<policy, rpc_user, rpc_password, users, issued, seen>>

\* add_user: self.users[user_id] = pubkey; return user_id
AddUserInsert(t) ==
    /\ req[t].pc = "add_user_insert"
    /\ users' = [k \in DOMAIN users \cup {req[t].user_id} |->
                    IF k = req[t].user_id THEN req[t].pubkey ELSE users[k]]
    /\ issued' = Append(issued, [id |-> req[t].user_id, pubkey |-> req[t].pubkey])
    /\ req' = [req EXCEPT ![t].pc = "done"]
    /\ UNCHANGED <<policy, rpc_user, rpc_password, seen>>

\* the request is over (parse_request returned False, or the method handler
\* returned) and the thread takes the next one
Finish(t) ==
    /\ \/ req[t].pc = "parsed" /\ req[t].result = "False"
       \/ req[t].pc = "done"
    /\ req' = [req EXCEPT ![t] = Idle]
    /\ UNCHANGED <<policy, rpc_user, rpc_password, users, issued, seen>>

Next ==
    \E t \in Threads :
        \/ Accept(t)
        \/ ParseRequest(t)
        \/ Sleep(t)
        \/ RaiseInvalid(t)
        \/ Dispatch(t)
        \/ AddUserLen(t)
        \/ AddUserInsert(t)
        \/ Finish(t)

Spec == Init /\ [][Next]_vars

SpecThreaded == InitThreaded /\ [][Next]_vars

\* the single-threaded server whose handler thread is scheduled: time.sleep
\* returns and the raise after it is executed
SpecLive == Spec /\ WF_vars(Sleep(1)) /\ WF_vars(RaiseInvalid(1))

----------------------------------------------------------------------------
\* Properties.

Static == policy = "PasswordProtectedJSONRPCServer"

\* parse_request has returned for the request r
Returned(r) == r.result # "none"

\* r passed the base parse and is not an OPTIONS request: parse_request
\* calls authenticate for it
Authenticated(r) == r.pc # "idle" /\ r.base_ok /\ r.command # OptionsCommand

\* the positions of the event e in the trace tr
Positions(tr, e) == {i \in 1..Len(tr) : tr[i] = e}

Occurs(tr, e) == Positions(tr, e) # {}

\* the only response of r is the error code with the repr of exc
OnlyError(r, code, exc) == r.errors = <<[code |-> code, message |-> Repr(exc)]>>

\* C1: a request whose authenticate raised (or is about to raise, being in
\* the delay of a failed check) has parse_request return False, is not
\* dispatched and never was; a dispatched request had no exception and no
\* error response
C1_AuthGate ==
    \A t \in Threads :
        LET r == req[t] IN
        /\ (r.exc # "none" \/ r.pc \in {"sleep", "raise"}) =>
              /\ r.result # "True"
              /\ ~r.dispatched
              /\ r.pc \notin {"done", "add_user_len", "add_user_insert"}
        /\ (r.exc # "none" => r.result = "False" /\ r.errors # <<>>)
        /\ (r.dispatched => r.result = "True" /\ r.errors = <<>>)

C1_Witness ==
    \E t \in Threads :
        /\ req[t].exc = "RPCAuthCredentialsInvalid"
        /\ req[t].pc = "parsed"
        /\ req[t].result = "False"

\* credentials is u ':' p with no ':' in u, or has no ':' and is u with p empty
SplitsAs(credentials, u, p) ==
    \/ /\ credentials = u \o <<58>> \o p
       /\ \A i \in 1..Len(u) : u[i] # 58
    \/ /\ \A i \in 1..Len(credentials) : credentials[i] # 58
       /\ u = credentials
       /\ p = <<>>

\* C2: with a non-empty rpc_password, an authenticated request carrying
\* 'Basic ' + base64(c) is allowed exactly when c splits at its first ':' into
\* rpc_user and rpc_password; otherwise it is answered 401 with
\* RPCAuthCredentialsInvalid
C2_BasicAllowedIffMatch ==
    \A t \in Threads : \A c \in Credentials :
        LET r == req[t] IN
        (/\ Static
         /\ rpc_password # <<>>
         /\ Authenticated(r)
         /\ Returned(r)
         /\ r.headers = WithAuthorization(BasicHeader(c))) =>
            IF SplitsAs(c, rpc_user, rpc_password)
            THEN r.result = "True" /\ r.exc = "none" /\ r.errors = <<>>
            ELSE /\ r.result = "False"
                 /\ r.exc = "RPCAuthCredentialsInvalid"
                 /\ OnlyError(r, 401, "RPCAuthCredentialsInvalid")

\* the password 's:x' holds a ':' and 'a:s:x' is allowed
C2_Witness ==
    \E t \in Threads :
        /\ Static
        /\ rpc_password = <<115, 58, 120>>
        /\ req[t].headers = WithAuthorization(BasicHeader(<<97, 58, 115, 58, 120>>))
        /\ Authenticated(req[t])
        /\ req[t].result = "True"

\* C3: with a non-empty rpc_password, an authenticated request without an
\* Authorization header is answered 401 with RPCAuthCredentialsMissing
C3_MissingCredentials ==
    \A t \in Threads :
        LET r == req[t] IN
        (/\ Static
         /\ rpc_password # <<>>
         /\ Authenticated(r)
         /\ "Authorization" \notin DOMAIN r.headers) =>
            /\ r.pc \in {"parse_request", "parsed"}
            /\ Returned(r) =>
                  /\ r.result = "False"
                  /\ r.exc = "RPCAuthCredentialsMissing"
                  /\ OnlyError(r, 401, "RPCAuthCredentialsMissing")

C3_Witness ==
    \E t \in Threads :
        /\ Static
        /\ rpc_password # <<>>
        /\ Authenticated(req[t])
        /\ "Authorization" \notin DOMAIN req[t].headers
        /\ req[t].exc = "RPCAuthCredentialsMissing"

\* C4: with the empty rpc_password every authenticated request is allowed
\* whatever its headers, and authenticate returns before headers.get or any
\* other call: no exception, no error response, no delay
C4_DisabledAllowsAll ==
    \A t \in Threads :
        LET r == req[t] IN
        (Static /\ rpc_password = <<>> /\ Authenticated(r)) =>
            /\ r.pc \notin {"sleep", "raise"}
            /\ Returned(r) =>
                  /\ r.result = "True"
                  /\ r.exc = "none"
                  /\ r.errors = <<>>
                  /\ r.trace = <<"base.parse_request", "authenticate">>

\* a request with a Basic header that does not decode is allowed
C4_Witness ==
    \E t \in Threads :
        /\ Static
        /\ rpc_password = <<>>
        /\ Authenticated(req[t])
        /\ req[t].headers = WithAuthorization(<<66, 97, 115, 105, 99, 32, 89>>)
        /\ req[t].result = "True"

\* the text before the first space of value is 'Basic'
HasBasicScheme(value) ==
    \/ value = BasicScheme
    \/ /\ Len(value) > Len(BasicScheme)
       /\ SubSeq(value, 1, Len(BasicScheme) + 1) = BasicScheme \o <<32>>

\* C5: with a non-empty rpc_password, an authenticated request whose
\* Authorization value does not start with the token 'Basic' is answered 401
\* with RPCAuthUnsupportedType, and base64 decoding is not reached
C5_UnsupportedScheme ==
    \A t \in Threads :
        LET r == req[t] IN
        (/\ Static
         /\ rpc_password # <<>>
         /\ Authenticated(r)
         /\ "Authorization" \in DOMAIN r.headers
         /\ ~HasBasicScheme(r.headers["Authorization"])) =>
            /\ r.pc \in {"parse_request", "parsed"}
            /\ Returned(r) =>
                  /\ r.result = "False"
                  /\ r.exc = "RPCAuthUnsupportedType"
                  /\ OnlyError(r, 401, "RPCAuthUnsupportedType")
                  /\ ~Occurs(r.trace, "b64decode")

\* 'Digest Y', whose remainder is not base64, is answered 401
C5_Witness ==
    \E t \in Threads :
        /\ Static
        /\ rpc_password # <<>>
        /\ Authenticated(req[t])
        /\ req[t].headers = WithAuthorization(<<68, 105, 103, 101, 115, 116, 32, 89>>)
        /\ req[t].exc = "RPCAuthUnsupportedType"

\* C6: under every server class an OPTIONS request that passed the base
\* parse has parse_request return True without a call of authenticate and
\* without an error response
C6_OptionsBypass ==
    \A t \in Threads :
        LET r == req[t] IN
        (r.pc # "idle" /\ r.base_ok /\ r.command = OptionsCommand) =>
            /\ r.pc \notin {"sleep", "raise"}
            /\ r.errors = <<>>
            /\ r.exc = "none"
            /\ ~Occurs(r.trace, "authenticate")
            /\ ~Occurs(r.trace, "headers.get")
            /\ Returned(r) => r.result = "True"

\* an OPTIONS request without headers passes a server that wants a password
C6_Witness ==
    \E t \in Threads :
        /\ Static
        /\ rpc_password # <<>>
        /\ req[t].command = OptionsCommand
        /\ req[t].base_ok
        /\ req[t].headers = NoHeaders
        /\ req[t].result = "True"

\* C7: an exception of authenticate that is none of the three
\* authentication errors is answered 500 and not 401, is logged, and the
\* request is not dispatched; a Basic payload that is not base64 or not
\* UTF-8 raises such an exception
C7_UnexpectedFault ==
    \A t \in Threads :
        LET r == req[t] IN
        /\ (r.exc \notin AuthErrors \cup {"none"}) =>
              /\ OnlyError(r, 500, r.exc)
              /\ Occurs(r.trace, "logger.exception")
              /\ r.result = "False"
              /\ ~r.dispatched
        /\ (/\ Static
            /\ rpc_password # <<>>
            /\ Authenticated(r)
            /\ Returned(r)) =>
              /\ r.headers \in {WithAuthorization(<<66, 97, 115, 105, 99, 32, 89, 81>>),
                                WithAuthorization(<<66, 97, 115, 105, 99, 32, 89>>)}
                    => r.exc = "binascii.Error"
              /\ r.headers = WithAuthorization(<<66, 97, 115, 105, 99, 32, 47, 119, 61, 61>>)
                    => r.exc = "UnicodeDecodeError"

C7_Witness ==
    \E t \in Threads :
        /\ req[t].exc = "UnicodeDecodeError"
        /\ OnlyError(req[t], 500, "UnicodeDecodeError")
        /\ req[t].pc = "parsed"

\* C8: whenever the credentials are compared, the username comparison and
\* the password comparison are both executed
C8_BothComparisonsExecuted ==
    \A t \in Threads :
        Occurs(req[t].trace, "compare_username") =>
            Occurs(req[t].trace, "compare_password")

\* C9: a request rejected with RPCAuthCredentialsInvalid has slept exactly
\* once, after the comparisons and before the raise and the 401; while it
\* waits at the sleep or at the raise nothing has been sent
C9_DelayBeforeInvalid ==
    \A t \in Threads :
        LET r == req[t]
            tr == r.trace
            sleeps == Positions(tr, "time.sleep")
            compares == Positions(tr, "compare_username")
                        \cup Positions(tr, "compare_password")
            rejects == Positions(tr, "raise") \cup Positions(tr, "send_error")
        IN
        /\ r.exc = "RPCAuthCredentialsInvalid" =>
              /\ Cardinality(sleeps) = 1
              /\ compares # {}
              /\ rejects # {}
              /\ \A i \in sleeps :
                    /\ \A j \in compares : j < i
                    /\ \A j \in rejects : i < j
        /\ r.pc = "sleep" =>
              sleeps = {} /\ compares # {} /\ rejects = {} /\ r.errors = <<>>
        /\ r.pc = "raise" =>
              Cardinality(sleeps) = 1 /\ rejects = {} /\ r.errors = <<>>

\* 'a:w' against the password 's' was answered 401 after the delay
C9_Witness ==
    \E t \in Threads :
        /\ req[t].exc = "RPCAuthCredentialsInvalid"
        /\ OnlyError(req[t], 401, "RPCAuthCredentialsInvalid")
        /\ Occurs(req[t].trace, "time.sleep")
        /\ req[t].headers = WithAuthorization(BasicHeader(<<97, 58, 119>>))

\* C10: the add_user calls that returned were given pairwise different
\* identifiers, and the table still maps each identifier to the identity of
\* the call it was given to
C10_AddUserMutuallyExclusive ==
    /\ \A i, j \in 1..Len(issued) : i # j => issued[i].id # issued[j].id
    /\ \A i \in 1..Len(issued) :
          /\ issued[i].id \in DOMAIN users
          /\ users[issued[i].id] = issued[i].pubkey

\* C11: on the single-threaded server the k-th add_user call that returned
\* was given k - 1, the keys of the table are 0 .. n - 1 after n calls, and
\* the table maps each identifier to the identity of its call
C11_SequentialIdentifiers ==
    /\ DOMAIN users = 0..(Len(issued) - 1)
    /\ \A k \in 1..Len(issued) :
          /\ issued[k].id = k - 1
          /\ users[k - 1] = issued[k].pubkey

\* the same identity registered twice got 0 and then 1
C11_Witness ==
    /\ Len(issued) = 2
    /\ issued[1] = [id |-> 0, pubkey |-> "pubkey1"]
    /\ issued[2] = [id |-> 1, pubkey |-> "pubkey1"]
    /\ users[0] = "pubkey1"
    /\ users[1] = "pubkey1"

\* no action changes the configured credentials or the server class, and a
\* request keeps its command and headers while it is handled
ConfigurationKept ==
    /\ policy' = policy
    /\ rpc_user' = rpc_user
    /\ rpc_password' = rpc_password
    /\ \A t \in Threads :
          (req[t].pc # "idle" /\ req'[t].pc # "idle") =>
              /\ req'[t].headers = req[t].headers
              /\ req'[t].command = req[t].command

\* whatever outcomes earlier requests had, a request with the configured
\* credentials is allowed and one with other credentials is rejected with
\* RPCAuthCredentialsInvalid
RepeatableOutcome ==
    \A t \in Threads : \A c \in Credentials :
        LET r == req[t] IN
        (/\ Static
         /\ rpc_password # <<>>
         /\ Authenticated(r)
         /\ Returned(r)
         /\ r.headers = WithAuthorization(BasicHeader(c))) =>
            IF SplitsAs(c, rpc_user, rpc_password)
            THEN r.result = "True" /\ r.errors = <<>>
            ELSE r.exc = "RPCAuthCredentialsInvalid" /\ r.result = "False"

\* C12: the password server keeps no memory between requests: no step
\* changes rpc_user, rpc_password or a request's headers, and after any
\* earlier outcomes (allowed, 401, 500) the configured credentials are
\* allowed and other credentials rejected with RPCAuthCredentialsInvalid
C12_NoMemory == [][ConfigurationKept]_vars /\ []RepeatableOutcome

\* after a 401 and a 500 the configured credentials are allowed
C12_Witness ==
    /\ Static
    /\ {"401", "500"} \subseteq seen
    /\ \E t \in Threads : \E c \in Credentials :
          /\ req[t].headers = WithAuthorization(BasicHeader(c))
          /\ SplitsAs(c, rpc_user, rpc_password)
          /\ Authenticated(req[t])
          /\ req[t].result = "True"

\* the exception authenticate ends with for r on the password server when r
\* is handled alone ("none": it returns), for the header sets of the
\* threaded server
AloneOutcome(r) ==
    IF rpc_password = <<>> THEN "none"
    ELSE IF r.headers = NoHeaders THEN "RPCAuthCredentialsMissing"
    ELSE IF \E c \in Credentials :
               /\ r.headers = WithAuthorization(BasicHeader(c))
               /\ SplitsAs(c, rpc_user, rpc_password)
    THEN "none"
    ELSE "RPCAuthCredentialsInvalid"

\* C13: with interleaved handler threads every request of the password
\* server ends as it would alone, and a thread in the delay of a failed
\* check (or about to raise after it) blocks no other thread: another
\* thread can run parse_request and another thread's sleep stays enabled
C13_ConcurrentAuthenticate ==
    /\ \A t \in Threads :
          LET r == req[t] IN
          (Static /\ Authenticated(r) /\ Returned(r)) =>
              /\ r.exc = AloneOutcome(r)
              /\ r.result = (IF AloneOutcome(r) = "none" THEN "True" ELSE "False")
    /\ \A t \in Threads : \A u \in Threads \ {t} :
          req[t].pc \in {"sleep", "raise"} =>
              /\ req[u].pc = "parse_request" => CanParse(u)
              /\ req[u].pc = "sleep" => ENABLED Sleep(u)

\* one thread is in the delay while another is about to check a request
\* with the configured credentials
C13_Witness ==
    /\ Static
    /\ rpc_password # <<>>
    /\ \E t \in Threads : \E u \in Threads \ {t} :
          /\ req[t].pc = "sleep"
          /\ req[u].pc = "parse_request"
          /\ Authenticated(req[u])
          /\ AloneOutcome(req[u]) = "none"

\* C14: the message of every 401 response is the text the __str__ of the
\* rejection's exception class returns
C14_ReasonInBody ==
    \A t \in Threads :
        \A i \in 1..Len(req[t].errors) :
            req[t].errors[i].code = 401 =>
                req[t].errors[i].message = Str(req[t].exc)

\* how many handler steps a request is from the return of parse_request, at
\* most
Rank(r) ==
    IF r.pc = "parse_request" THEN 3
    ELSE IF r.pc = "sleep" THEN 2
    ELSE IF r.pc = "raise" THEN 1
    ELSE 0

\* a request starts with no outcome; while parse_request has not returned
\* its next step can be taken; once it returned after a successful base
\* parse it is either True with no error response, or False with exactly
\* one 401 or 500 and no dispatch
OneTerminalState ==
    \A t \in Threads :
        LET r == req[t] IN
        /\ r.pc = "parse_request" =>
              r.result = "none" /\ r.errors = <<>> /\ ~r.dispatched /\ CanParse(t)
        /\ r.pc = "sleep" => r.result = "none" /\ ENABLED Sleep(t)
        /\ r.pc = "raise" => r.result = "none" /\ ENABLED RaiseInvalid(t)
        /\ r.pc \in {"parsed", "done", "add_user_len", "add_user_insert"} =>
              Returned(r)
        /\ (r.base_ok /\ Returned(r)) =>
              \/ r.result = "True" /\ r.errors = <<>> /\ r.exc = "none"
              \/ /\ r.result = "False"
                 /\ Len(r.errors) = 1
                 /\ r.errors[1].code \in {401, 500}
                 /\ ~r.dispatched
        /\ ~(r.errors # <<>> /\ r.dispatched)

\* every step of the handler brings the request nearer to the return of
\* parse_request, and the outcome is kept for as long as the request lasts
TerminalKept ==
    \A t \in Threads :
        /\ (req'[t] # req[t] /\ Rank(req[t]) > 0) => Rank(req'[t]) < Rank(req[t])
        /\ (Returned(req[t]) /\ req'[t].pc # "idle") =>
              /\ req'[t].result = req[t].result
              /\ req'[t].errors = req[t].errors
              /\ req'[t].exc = req[t].exc

\* C15: a request starts without an outcome, parse_request returns after at
\* most three handler steps, each of which can always be taken, and it
\* returns in exactly one of two states that the request then keeps: True
\* without an error response, or False with exactly one 401 or 500; no
\* request has both an error response and a dispatch; a request in the
\* delay, the one place where the handler waits, eventually gets its outcome
C15_StateMachine ==
    /\ []OneTerminalState
    /\ [][TerminalKept]_vars
    /\ \A t \in {1} : (req[t].pc = "sleep") ~> Returned(req[t])

\* a request went through the check, the delay and the raise, and ended
\* with one 401
C15_Witness ==
    \E t \in Threads :
        /\ req[t].base_ok
        /\ req[t].pc = "parsed"
        /\ req[t].result = "False"
        /\ Occurs(req[t].trace, "time.sleep")
        /\ Len(req[t].errors) = 1
        /\ req[t].errors[1].code = 401

\* C16: with a non-empty rpc_password, Basic credentials without a ':' are
\* answered 401 with RPCAuthCredentialsInvalid after the delay, never 500
\* and never allowed; the whole payload is the username (the password
\* comparison is reached exactly when the payload is rpc_user) and the
\* password is ''
C16_NoColonPayload ==
    \A t \in Threads : \A c \in Credentials :
        LET r == req[t] IN
        (/\ Static
         /\ rpc_password # <<>>
         /\ Authenticated(r)
         /\ r.headers = WithAuthorization(BasicHeader(c))
         /\ \A i \in 1..Len(c) : c[i] # 58) =>
            /\ r.pc \in {"parse_request", "sleep", "raise", "parsed"}
            /\ r.result # "True"
            /\ Returned(r) =>
                  /\ r.exc = "RPCAuthCredentialsInvalid"
                  /\ OnlyError(r, 401, "RPCAuthCredentialsInvalid")
                  /\ Occurs(r.trace, "time.sleep")
                  /\ Occurs(r.trace, "compare_password") <=> (c = rpc_user)

\* 'a' against the user 'a': the username matched, the empty password did not
C16_Witness ==
    \E t \in Threads :
        /\ Static
        /\ rpc_user = <<97>>
        /\ rpc_password # <<>>
        /\ Authenticated(req[t])
        /\ req[t].headers = WithAuthorization(BasicHeader(<<97>>))
        /\ req[t].exc = "RPCAuthCredentialsInvalid"
        /\ Occurs(req[t].trace, "compare_password")

\* C17: only a failed comparison of the password server leads to the
\* delay: a request that sleeps, or has slept, compared credentials and ends
\* with RPCAuthCredentialsInvalid; an allowed request, an OPTIONS request,
\* one rejected as missing or unsupported and one answered 500 has no
\* time.sleep in its trace
C17_DelayOnlyOnInvalid ==
    \A t \in Threads :
        LET r == req[t] IN
        /\ (r.pc \in {"sleep", "raise"} \/ Occurs(r.trace, "time.sleep")) =>
              /\ Static
              /\ rpc_password # <<>>
              /\ Authenticated(r)
              /\ Occurs(r.trace, "compare_username")
              /\ Returned(r) => r.exc = "RPCAuthCredentialsInvalid"
        /\ (Returned(r) /\ r.exc # "RPCAuthCredentialsInvalid") =>
              ~Occurs(r.trace, "time.sleep")

\* a Basic payload that is not base64 was answered 500 without a delay
C17_Witness ==
    \E t \in Threads :
        /\ req[t].exc = "binascii.Error"
        /\ req[t].pc = "parsed"
        /\ ~Occurs(req[t].trace, "time.sleep")

\* C18: a request the base parse_request refused has no call of
\* authenticate, no 401 or 500 from the handler, parse_request returning
\* False and no dispatch, whatever its command
C18_BaseParseFailed ==
    \A t \in Threads :
        LET r == req[t] IN
        (r.pc # "idle" /\ ~r.base_ok) =>
            /\ r.pc \in {"parse_request", "parsed"}
            /\ r.errors = <<>>
            /\ r.exc = "none"
            /\ ~Occurs(r.trace, "authenticate")
            /\ ~r.dispatched
            /\ Returned(r) => r.result = "False"

\* an OPTIONS request the base parse refused was not let through
C18_Witness ==
    \E t \in Threads :
        /\ ~req[t].base_ok
        /\ req[t].command = OptionsCommand
        /\ req[t].pc = "parsed"
        /\ req[t].result = "False"
        /\ req[t].errors = <<>>

\* C19: on the base class every request that passed the base parse and is
\* not OPTIONS ends with one 500, a logged exception and no dispatch; none
\* is allowed
C19_BaseClassFailsClosed ==
    \A t \in Threads :
        LET r == req[t] IN
        (policy = "AuthenticatedJSONRPCServer" /\ Authenticated(r)) =>
            /\ r.pc \in {"parse_request", "parsed"}
            /\ r.result # "True"
            /\ ~r.dispatched
            /\ Returned(r) =>
                  /\ r.exc = "Exception"
                  /\ OnlyError(r, 500, "Exception")
                  /\ Occurs(r.trace, "logger.exception")

\* a request with the credentials another server would accept got 500
C19_Witness ==
    \E t \in Threads :
        /\ policy = "AuthenticatedJSONRPCServer"
        /\ req[t].headers = WithAuthorization(BasicHeader(<<97, 58, 115>>))
        /\ Authenticated(req[t])
        /\ OnlyError(req[t], 500, "Exception")

====
